---- MODULE Spec2Model ----
(***************************************************************************)
(* A model of ddtpy.main.main (src/ddtpy/main.py): configuration checks,   *)
(* loading and NaN-neutralising of the datacubes, model construction, the  *)
(* initial fit and the registration loop over the final-reference epochs.  *)
(*                                                                         *)
(* Floating point values are decimal numbers m * 10^e or NaN; positions    *)
(* and fluxes are integers, and the median / MAD arithmetic is carried out *)
(* exactly on scaled integers.                                             *)
(***************************************************************************)
EXTENDS Integers, Sequences, FiniteSets, TLC

VARIABLES
    pc,               \* position in main()
    conf,             \* the parsed JSON configuration
    files,            \* identifies the content of the FITS files in IN_CUBE
    error,            \* the exception main() ended with ("" when none)
    master_final_ref, \* local of main / ddtdata.master_final_ref
    data,             \* ddtdata.data    [epoch][wave][spaxel]
    weight,           \* ddtdata.weight  [epoch][wave][spaxel]
    weight_orig,      \* local copy made before the registration loop
    data_xctr_init,   \* local array, initial x offsets
    data_yctr_init,   \* local array, initial y offsets
    data_xctr,        \* model.data_xctr
    data_yctr,        \* model.data_yctr
    ctr_shared,       \* whether DDTModel keeps the very arrays it was given
    include_in_fit,   \* local boolean array
    i_t,              \* loop variable of the registration loop
    tmp_m,            \* local: wavelength-summed model flux of epoch i_t
    mask,             \* local: registration mask of epoch i_t
    pos,              \* local: position returned by fit_position
    convergence,      \* local: flag returned by fit_position
    model_built,      \* whether DDTModel(...) has been constructed
    n_fit_all,        \* number of calls of fit_model_all_epoch
    n_fit_position    \* per epoch, number of calls of fit_position

vars == <<pc, conf, ctr_shared, files, error, master_final_ref, data, weight, weight_orig,
          data_xctr_init, data_yctr_init, data_xctr, data_yctr, include_in_fit,
          i_t, tmp_m, mask, pos, convergence, model_built, n_fit_all,
          n_fit_position>>

(***************************************************************************)
(* Bounds of the model and constants of the program.                       *)
(***************************************************************************)
NT == 3
NSpax == 22

WaveLo == 200
WaveHi == 201
DataExp == 15
MinSpaxels == 20
MaxMove == 3
MaskNmadTimes2 == 5
ApodizerLimit == 2

Epochs == 0 .. (NT - 1)
Spaxels == 1 .. NSpax
RawWaves == (WaveLo - 1) .. WaveHi
Waves == 0 .. (WaveHi - WaveLo - 1)

(***************************************************************************)
(* Floating point values.                                                  *)
(***************************************************************************)
NaN == [nan |-> TRUE, m |-> 0, e |-> 0]
Num(k) == [nan |-> FALSE, m |-> k, e |-> 0]
Zero == Num(0)
IsNaN(v) == v.nan

\* v * 10**k
Times10(v, k) ==
    IF v.nan THEN NaN
    ELSE IF v.m = 0 THEN Zero
    ELSE [nan |-> FALSE, m |-> v.m, e |-> v.e + k]

\* v * b for a boolean b (True is 1, False is 0)
TimesBool(v, b) ==
    IF v.nan THEN NaN
    ELSE IF b THEN v
    ELSE Zero

(***************************************************************************)
(* Inputs: the configuration and the content of the FITS files.            *)
(***************************************************************************)
\* conf.get(key, default): an optional key is <<>> when absent, <<v>> when set
ConfGet(opt, default) == IF opt = <<>> THEN default ELSE opt[1]

ApodizerValues == {<<>>, <<ApodizerLimit - 1>>, <<ApodizerLimit>>}
PsfTypes == {"GS-PSF", "G-PSF", "X-PSF"}
FinalRefValues == 0 .. (NT + 1)
TargetValues == {<<>>, <<[t \in Epochs |-> 1]>>}
FilePatterns == {1, 2}

Configurations ==
    [FLAG_APODIZER : ApodizerValues,
     PARAM_PSF_TYPE : PsfTypes,
     PARAM_FINAL_REF : FinalRefValues,
     PARAM_IS_FINAL_REF : [Epochs -> BOOLEAN],
     PARAM_TARGET_XP : TargetValues,
     PARAM_TARGET_YP : TargetValues]

\* read_dataset(conf["IN_CUBE"]): the data of file pattern p
RawData(p) ==
    [t \in Epochs |-> [w \in RawWaves |-> [s \in Spaxels |->
        IF p > 0 /\ (s + t + w) % (p + 1) = 0
            THEN NaN
            ELSE Num((s % 3) - 1)]]]

\* read_dataset(conf["IN_CUBE"]): the weight of file pattern p
RawWeight(p) ==
    [t \in Epochs |-> [w \in RawWaves |-> [s \in Spaxels |->
        Num((s + t + p) % 3)]]]

(***************************************************************************)
(* Loading: wavelength selection, scaling, NaN neutralisation.             *)
(***************************************************************************)
\* arr[:, 200:201, :, :] * 10**k
SliceScale(arr, k) ==
    [t \in Epochs |-> [w \in Waves |-> [s \in Spaxels |->
        Times10(arr[t][w + WaveLo][s], k)]]]

\* data[mask] = 0.0 with mask = np.isnan(data)
ZeroDataWhereNaN(d) ==
    [t \in Epochs |-> [w \in Waves |-> [s \in Spaxels |->
        IF IsNaN(d[t][w][s]) THEN Zero ELSE d[t][w][s]]]]

\* a variant that leaves the weight of NaN pixels as read
WeightKeepWhereNaN(d, wt) == wt

\* weight[mask] = 0.0 with mask = np.isnan(data)
ZeroWeightWhereNaN(d, wt) ==
    [t \in Epochs |-> [w \in Waves |-> [s \in Spaxels |->
        IF IsNaN(d[t][w][s]) THEN Zero ELSE wt[t][w][s]]]]

\* the data array handed to DDTData for file pattern p
LoadedData(p) == ZeroDataWhereNaN(SliceScale(RawData(p), DataExp))

\* the weight array handed to DDTData for file pattern p
LoadedWeight(p) ==
    ZeroWeightWhereNaN(SliceScale(RawData(p), DataExp),
                       SliceScale(RawWeight(p), -(DataExp * 2)))

(***************************************************************************)
(* Configuration checks.                                                   *)
(***************************************************************************)
ApodizerUnsupported(c) == ConfGet(c.FLAG_APODIZER, 0) >= ApodizerLimit

\* a variant that lets an unrecognised type through
PsfTypeAnyButG(c) == c.PARAM_PSF_TYPE # "G-PSF"

PsfTypeSupported(c) == c.PARAM_PSF_TYPE = "GS-PSF"

\* index of the cube whose header is loaded
HeaderIndex(m) == IF m >= 0 THEN m ELSE 0

(***************************************************************************)
(* The registration mask.                                                  *)
(***************************************************************************)
Abs(x) == IF x < 0 THEN -x ELSE x

\* the k-th smallest value of f (k = 1 is the minimum)
KthSmallest(f, k) ==
    CHOOSE v \in {f[s] : s \in DOMAIN f} :
        /\ Cardinality({s \in DOMAIN f : f[s] < v}) < k
        /\ Cardinality({s \in DOMAIN f : f[s] <= v}) >= k

\* 2 * np.median(f)
Median2(f) ==
    LET n == Cardinality(DOMAIN f)
    IN  IF n % 2 = 1
            THEN 2 * KthSmallest(f, (n + 1) \div 2)
            ELSE KthSmallest(f, n \div 2) + KthSmallest(f, (n \div 2) + 1)

\* 4 * np.median(np.abs(f - np.median(f)))
Mad4(f) ==
    LET med2 == Median2(f)
    IN  Median2([s \in DOMAIN f |-> Abs(2 * f[s] - med2)])

\* np.min(f)
Min(f) == KthSmallest(f, 1)

\* 8 * (np.min(f) + mask_nmad * mad)
Threshold8(f) == 8 * Min(f) + MaskNmadTimes2 * Mad4(f)

\* mask = tmp_m > np.min(tmp_m) + mask_nmad * tmp_mad
MaskOf(f) ==
    LET thr8 == Threshold8(f)
    IN  [s \in DOMAIN f |-> 8 * f[s] > thr8]

\* mask.sum()
MaskSum(mk) == Cardinality({s \in DOMAIN mk : mk[s]})

\* ddtdata.weight[i_t] * mask[None, :, :]
MaskedSlice(wslice, mk) ==
    [w \in DOMAIN wslice |-> [s \in Spaxels |-> TimesBool(wslice[w][s], mk[s])]]

\* model.evaluate(i_t, ...).sum(axis=0): a flat map
FlatMap == [s \in Spaxels |-> 10]

\* a map with one spaxel at the minimum, one exactly at min + 2.5 MAD
GradedMap ==
    [s \in Spaxels |->
        IF s = 1 THEN 0 ELSE IF s = 2 THEN 5
        ELSE IF s % 2 = 1 THEN 10 ELSE 12]

\* a map with too few bright spaxels
SparseMap ==
    [s \in Spaxels |->
        IF s <= 4 THEN 0 ELSE IF s % 2 = 1 THEN 10 ELSE 12]

FluxMaps == {FlatMap, GradedMap, SparseMap}

(***************************************************************************)
(* The registration loop.                                                  *)
(***************************************************************************)
\* a variant that registers the master as well
EligibleIgnoringMaster(isref, master, i) == isref[i]

\* not ((not is_final_ref[i_t]) or i_t == master_final_ref)
Eligible(isref, master, i) == isref[i] /\ i # master

\* positions fit_position may return
Positions == {<<2, 0>>, <<2, 2>>, <<3, 0>>, <<3, 2>>}

\* (pos[0] - x0)**2 + (pos[1] - y0)**2
Dist2(p, x0, y0) == (p[1] - x0) * (p[1] - x0) + (p[2] - y0) * (p[2] - y0)

\* a variant that accepts a move of exactly the cap
MoveWithinOrAtCap(p, x0, y0) == Dist2(p, x0, y0) <= MaxMove * MaxMove

\* math.sqrt(...) < maxmove_fit_position
MoveBelowCap(p, x0, y0) == Dist2(p, x0, y0) < MaxMove * MaxMove

\* model.data_xctr[i_t] = v as seen through the array arr the model was
\* given: arr changes with it when the model kept arr itself
SharedStore(arr, shared, i, v) ==
    IF shared THEN [arr EXCEPT ![i] = v] ELSE arr

\* a variant that forgets to reset the weight
KeptWeight(orig, cur) == cur

\* ddtdata.weight = weight_orig
RestoredWeight(orig, cur) == orig

(***************************************************************************)
(* Initial state: main(filename) has parsed the configuration file.        *)
(***************************************************************************)
Init ==
    /\ pc = "check_apodizer"
    /\ conf \in Configurations
    /\ files \in FilePatterns
    /\ error = ""
    /\ master_final_ref = 0
    /\ data = <<>>
    /\ weight = <<>>
    /\ weight_orig = <<>>
    /\ data_xctr_init = <<>>
    /\ data_yctr_init = <<>>
    /\ data_xctr = <<>>
    /\ data_yctr = <<>>
    /\ ctr_shared = FALSE
    /\ include_in_fit = <<>>
    /\ i_t = 0
    /\ tmp_m = <<>>
    /\ mask = <<>>
    /\ pos = <<>>
    /\ convergence = FALSE
    /\ model_built = FALSE
    /\ n_fit_all = 0
    /\ n_fit_position = [t \in Epochs |-> 0]

\* lines 32-34: the apodizer check
CheckApodizer ==
    /\ pc = "check_apodizer"
    /\ IF ApodizerUnsupported(conf)
          THEN pc' = "error" /\ error' = "RuntimeError: FLAG_APODIZER"
          ELSE pc' = "load_header" /\ error' = error
    /\ UNCHANGED <<conf, ctr_shared, files, master_final_ref, data, weight, weight_orig,
                   data_xctr_init, data_yctr_init, data_xctr, data_yctr,
                   include_in_fit, i_t, tmp_m, mask, pos, convergence,
                   model_built, n_fit_all, n_fit_position>>

\* lines 36-51: master_final_ref and the header of the reference cube
LoadHeader ==
    /\ pc = "load_header"
    /\ master_final_ref' = conf.PARAM_FINAL_REF - 1
    /\ IF HeaderIndex(conf.PARAM_FINAL_REF - 1) \in Epochs
          THEN pc' = "read_dataset" /\ error' = error
          ELSE pc' = "error" /\ error' = "IndexError: IN_CUBE"
    /\ UNCHANGED <<conf, ctr_shared, files, data, weight, weight_orig,
                   data_xctr_init, data_yctr_init, data_xctr, data_yctr,
                   include_in_fit, i_t, tmp_m, mask, pos, convergence,
                   model_built, n_fit_all, n_fit_position>>

\* lines 53-69: read the cubes, select, scale, neutralise NaNs, build DDTData
ReadDataset ==
    /\ pc = "read_dataset"
    /\ data' = LoadedData(files)
    /\ weight' = LoadedWeight(files)
    /\ pc' = "load_psf"
    /\ UNCHANGED <<conf, ctr_shared, files, error, master_final_ref, weight_orig,
                   data_xctr_init, data_yctr_init, data_xctr, data_yctr,
                   include_in_fit, i_t, tmp_m, mask, pos, convergence,
                   model_built, n_fit_all, n_fit_position>>

\* lines 80-87: the PSF type
LoadPsf ==
    /\ pc = "load_psf"
    /\ IF PsfTypeSupported(conf)
          THEN pc' = "init_model" /\ error' = error
          ELSE pc' = "error" /\ error' = "RuntimeError: PARAM_PSF_TYPE"
    /\ UNCHANGED <<conf, ctr_shared, files, master_final_ref, data, weight, weight_orig,
                   data_xctr_init, data_yctr_init, data_xctr, data_yctr,
                   include_in_fit, i_t, tmp_m, mask, pos, convergence,
                   model_built, n_fit_all, n_fit_position>>

\* lines 97-136: ADR, sky guess, initial positions, DDTModel(...).  The
\* model is given data_xctr_init and data_yctr_init; it may copy them or
\* keep the arrays themselves as model.data_xctr and model.data_yctr.
InitModel ==
    /\ pc = "init_model"
    /\ data_xctr_init' = ConfGet(conf.PARAM_TARGET_XP, [t \in Epochs |-> 0])
    /\ data_yctr_init' = ConfGet(conf.PARAM_TARGET_YP, [t \in Epochs |-> 0])
    /\ data_xctr' = data_xctr_init'
    /\ data_yctr' = data_yctr_init'
    /\ ctr_shared' \in BOOLEAN
    /\ model_built' = TRUE
    /\ pc' = "fit_all"
    /\ UNCHANGED <<conf, files, error, master_final_ref, data, weight,
                   weight_orig, include_in_fit, i_t, tmp_m, mask, pos,
                   convergence, n_fit_all, n_fit_position>>

\* line 142: fit_model_all_epoch(model, ddtdata)
FitModelAllEpoch ==
    /\ pc = "fit_all"
    /\ n_fit_all' = n_fit_all + 1
    /\ pc' = "reg_setup"
    /\ UNCHANGED <<conf, ctr_shared, files, error, master_final_ref, data, weight,
                   weight_orig, data_xctr_init, data_yctr_init, data_xctr,
                   data_yctr, include_in_fit, i_t, tmp_m, mask, pos,
                   convergence, model_built, n_fit_position>>

\* lines 147-156: copy the weight, include every epoch
RegistrationSetup ==
    /\ pc = "reg_setup"
    /\ weight_orig' = weight
    /\ include_in_fit' = [t \in Epochs |-> TRUE]
    /\ i_t' = 0
    /\ pc' = "loop"
    /\ UNCHANGED <<conf, ctr_shared, files, error, master_final_ref, data, weight,
                   data_xctr_init, data_yctr_init, data_xctr, data_yctr,
                   tmp_m, mask, pos, convergence, model_built, n_fit_all,
                   n_fit_position>>

\* lines 164-166: an epoch that is not a final ref, or is the master
SkipEpoch ==
    /\ pc = "loop"
    /\ i_t < NT
    /\ ~Eligible(conf.PARAM_IS_FINAL_REF, master_final_ref, i_t)
    /\ i_t' = i_t + 1
    /\ UNCHANGED <<pc, conf, ctr_shared, files, error, master_final_ref, data, weight,
                   weight_orig, data_xctr_init, data_yctr_init, data_xctr,
                   data_yctr, include_in_fit, tmp_m, mask, pos, convergence,
                   model_built, n_fit_all, n_fit_position>>

\* lines 168-184: evaluate the model, build the mask, count its spaxels
EvaluateMask ==
    /\ pc = "loop"
    /\ i_t < NT
    /\ Eligible(conf.PARAM_IS_FINAL_REF, master_final_ref, i_t)
    /\ \E f \in FluxMaps :
        /\ tmp_m' = f
        /\ mask' = MaskOf(f)
        /\ IF MaskSum(mask') < MinSpaxels
              THEN pc' = "loop" /\ i_t' = i_t + 1
              ELSE pc' = "fit_position" /\ i_t' = i_t
    /\ UNCHANGED <<conf, ctr_shared, files, error, master_final_ref, data, weight,
                   weight_orig, data_xctr_init, data_yctr_init, data_xctr,
                   data_yctr, include_in_fit, pos, convergence, model_built,
                   n_fit_all, n_fit_position>>

\* lines 186-194: mask the weight of the epoch in place, call fit_position
FitPosition ==
    /\ pc = "fit_position"
    /\ weight' = [weight EXCEPT ![i_t] = MaskedSlice(weight[i_t], mask)]
    /\ \E p \in Positions, c \in BOOLEAN :
        /\ pos' = p
        /\ convergence' = c
    /\ n_fit_position' = [n_fit_position EXCEPT ![i_t] = @ + 1]
    /\ pc' = "check_move"
    /\ UNCHANGED <<conf, ctr_shared, files, error, master_final_ref, data, weight_orig,
                   data_xctr_init, data_yctr_init, data_xctr, data_yctr,
                   include_in_fit, i_t, tmp_m, mask, model_built, n_fit_all>>

\* lines 196-205: accept the position or cut the epoch from the fit
CheckMove ==
    /\ pc = "check_move"
    /\ IF MoveBelowCap(pos, data_xctr_init[i_t], data_yctr_init[i_t])
          THEN /\ data_xctr' = [data_xctr EXCEPT ![i_t] = pos[1]]
               /\ data_yctr' = [data_yctr EXCEPT ![i_t] = pos[2]]
               /\ data_xctr_init' =
                      SharedStore(data_xctr_init, ctr_shared, i_t, pos[1])
               /\ data_yctr_init' =
                      SharedStore(data_yctr_init, ctr_shared, i_t, pos[2])
               /\ include_in_fit' = include_in_fit
          ELSE /\ include_in_fit' = [include_in_fit EXCEPT ![i_t] = FALSE]
               /\ UNCHANGED <<data_xctr, data_yctr, data_xctr_init,
                              data_yctr_init>>
    /\ pc' = "checked"
    /\ UNCHANGED <<conf, ctr_shared, files, error, master_final_ref, data, weight,
                   weight_orig, i_t, tmp_m, mask, pos, convergence,
                   model_built, n_fit_all, n_fit_position>>

\* line 164: the loop moves on to the next epoch
NextEpoch ==
    /\ pc = "checked"
    /\ i_t' = i_t + 1
    /\ pc' = "loop"
    /\ UNCHANGED <<conf, ctr_shared, files, error, master_final_ref, data, weight,
                   weight_orig, data_xctr_init, data_yctr_init, data_xctr,
                   data_yctr, include_in_fit, tmp_m, mask, pos, convergence,
                   model_built, n_fit_all, n_fit_position>>

\* lines 207-208: reset the weight once the loop is over
ResetWeight ==
    /\ pc = "loop"
    /\ i_t = NT
    /\ weight' = RestoredWeight(weight_orig, weight)
    /\ pc' = "done"
    /\ UNCHANGED <<conf, ctr_shared, files, error, master_final_ref, data, weight_orig,
                   data_xctr_init, data_yctr_init, data_xctr, data_yctr,
                   include_in_fit, i_t, tmp_m, mask, pos, convergence,
                   model_built, n_fit_all, n_fit_position>>

Next ==
    \/ CheckApodizer
    \/ LoadHeader
    \/ ReadDataset
    \/ LoadPsf
    \/ InitModel
    \/ FitModelAllEpoch
    \/ RegistrationSetup
    \/ SkipEpoch
    \/ EvaluateMask
    \/ FitPosition
    \/ CheckMove
    \/ NextEpoch
    \/ ResetWeight

Spec == Init /\ [][Next]_vars

(***************************************************************************)
(* Vocabulary of the properties.                                           *)
(***************************************************************************)
\* the registration loop has been entered (include_in_fit exists)
InRegistration == pc \in {"loop", "fit_position", "check_move", "checked", "done"}

\* epoch i is registered by the loop: a final ref that is not the master
Registered(i) == Eligible(conf.PARAM_IS_FINAL_REF, master_final_ref, i)

\* epoch i was reached by the loop and left without a call of fit_position
Skipped(i) == InRegistration /\ Registered(i) /\ i < i_t /\ n_fit_position[i] = 0

\* the configuration names one of the final-reference epochs as the master
MasterDesignated ==
    /\ master_final_ref \in Epochs
    /\ conf.PARAM_IS_FINAL_REF[master_final_ref]

\* the offsets the model is constructed with, the values before the loop
InitialX == ConfGet(conf.PARAM_TARGET_XP, [t \in Epochs |-> 0])
InitialY == ConfGet(conf.PARAM_TARGET_YP, [t \in Epochs |-> 0])

\* the configuration is one main() must refuse
InvalidConf ==
    \/ ConfGet(conf.FLAG_APODIZER, 0) >= 2
    \/ conf.PARAM_PSF_TYPE = "G-PSF"
    \/ conf.PARAM_PSF_TYPE \notin {"GS-PSF", "G-PSF"}

(***************************************************************************)
(* C1: when the registration step has finished, ddtdata.weight equals,     *)
(* element for element, the weight array as it was before the loop (the    *)
(* loaded, NaN-neutralised weight), whatever epochs were skipped, accepted *)
(* or rejected.                                                            *)
(***************************************************************************)
C1_WeightRestored == pc = "done" => weight = LoadedWeight(files)

\* the loop is over after one epoch was rejected and one skipped, and the
\* mask of the rejected epoch had zeroed a spaxel of non-zero weight
C1_Witness ==
    /\ pc = "done"
    /\ MasterDesignated
    /\ \E i, j \in Epochs :
        /\ n_fit_position[i] = 1
        /\ ~include_in_fit[i]
        /\ ~mask[1]
        /\ weight[i][0][1] # Zero
        /\ Skipped(j)

(***************************************************************************)
(* C2: the step that follows fit_position leaves model.data_xctr/data_yctr *)
(* of the epoch unchanged and clears include_in_fit when the distance to   *)
(* the initial position is >= 3.0; otherwise it stores the returned        *)
(* position and include_in_fit stays True.                                 *)
(***************************************************************************)
C2_MovementCap ==
    [][pc = "check_move" =>
        IF Dist2(pos, data_xctr_init[i_t], data_yctr_init[i_t]) >= 3 * 3
            THEN /\ data_xctr'[i_t] = data_xctr[i_t]
                 /\ data_yctr'[i_t] = data_yctr[i_t]
                 /\ include_in_fit'[i_t] = FALSE
            ELSE /\ data_xctr'[i_t] = pos[1]
                 /\ data_yctr'[i_t] = pos[2]
                 /\ include_in_fit[i_t] = TRUE
                 /\ include_in_fit'[i_t] = TRUE]_vars

\* an epoch whose returned position is exactly 3.0 away has been rejected
C2_Witness ==
    /\ pc = "checked"
    /\ Dist2(pos, data_xctr_init[i_t], data_yctr_init[i_t]) = 9
    /\ ~include_in_fit[i_t]
    /\ data_xctr[i_t] = InitialX[i_t]

(***************************************************************************)
(* C3: an epoch skipped for having fewer than 20 unmasked spaxels has had  *)
(* no call of fit_position, keeps its position and its weight slice, and   *)
(* its per-epoch flags tell it apart from an epoch that was attempted.     *)
(* Stated for runs whose master is one of the final-reference epochs.      *)
(***************************************************************************)
C3_SkipIsFlagged ==
    (pc = "done" /\ MasterDesignated) =>
        \A i \in Epochs : Skipped(i) =>
            /\ data_xctr[i] = InitialX[i]
            /\ data_yctr[i] = InitialY[i]
            /\ weight[i] = LoadedWeight(files)[i]
            /\ \A j \in Epochs :
                n_fit_position[j] > 0 => include_in_fit[j] # include_in_fit[i]

(***************************************************************************)
(* C4: epochs that are the master or not a final ref keep data_xctr,       *)
(* data_yctr and include_in_fit as they were before the loop; fit_position *)
(* is called only for final refs other than the master, at most once each. *)
(***************************************************************************)
C4_OnlyNonMasterFinalRefs ==
    /\ \A i \in Epochs :
        /\ n_fit_position[i] <= 1
        /\ n_fit_position[i] = 1 =>
            (conf.PARAM_IS_FINAL_REF[i] /\ i # conf.PARAM_FINAL_REF - 1)
    /\ InRegistration =>
        \A i \in Epochs :
            (~conf.PARAM_IS_FINAL_REF[i] \/ i = conf.PARAM_FINAL_REF - 1) =>
                /\ data_xctr[i] = InitialX[i]
                /\ data_yctr[i] = InitialY[i]
                /\ include_in_fit[i] = TRUE

\* the loop is over: the master final ref and a non-final-ref epoch were
\* left alone while another final ref was moved
C4_Witness ==
    /\ pc = "done"
    /\ MasterDesignated
    /\ \E j, k \in Epochs :
        /\ n_fit_position[j] = 1
        /\ data_xctr[j] # InitialX[j]
        /\ ~conf.PARAM_IS_FINAL_REF[k]

(***************************************************************************)
(* C5: the registration mask excludes exactly the spaxels whose summed     *)
(* flux is below min + 2.5 * MAD, and keeps a spaxel whose flux equals     *)
(* that threshold.  Stated for runs whose master is one of the             *)
(* final-reference epochs.                                                 *)
(***************************************************************************)
C5_MaskExcludesBelowThreshold ==
    (tmp_m # <<>> /\ MasterDesignated) =>
        \A s \in Spaxels : mask[s] = ~(8 * tmp_m[s] < Threshold8(tmp_m))

(***************************************************************************)
(* C6: once the Datacube Store is built and until registration starts,     *)
(* every selected pixel that was NaN has data 0 and weight 0, every other  *)
(* pixel has its scaled data and weight, and no pixel has NaN data.        *)
(***************************************************************************)
C6_NaNNeutralised ==
    pc \in {"load_psf", "init_model", "fit_all", "reg_setup"} =>
        \A t \in Epochs, w \in Waves, s \in Spaxels :
            /\ ~IsNaN(data[t][w][s])
            /\ IF IsNaN(RawData(files)[t][w + 200][s])
                  THEN data[t][w][s] = Zero /\ weight[t][w][s] = Zero
                  ELSE /\ data[t][w][s] =
                            Times10(RawData(files)[t][w + 200][s], 15)
                       /\ weight[t][w][s] =
                            Times10(RawWeight(files)[t][w + 200][s], -30)

\* the fit is about to run on a cube with a NaN pixel of non-zero weight
\* in the files and a non-NaN, non-zero pixel next to it
C6_Witness ==
    /\ pc = "fit_all"
    /\ \E t \in Epochs, s, r \in Spaxels :
        /\ IsNaN(RawData(files)[t][200][s])
        /\ RawWeight(files)[t][200][s] # Zero
        /\ weight[t][0][s] = Zero
        /\ data[t][0][r] = [nan |-> FALSE, m |-> 1, e |-> 15]
        /\ weight[t][0][r].e = -30

(***************************************************************************)
(* C7: with an invalid configuration (FLAG_APODIZER >= 2, PARAM_PSF_TYPE   *)
(* "G-PSF" or unrecognised) main() never constructs the model, never calls *)
(* fit_model_all_epoch or fit_position, and can only end in an error.      *)
(***************************************************************************)
C7_InvalidConfNoRun ==
    InvalidConf =>
        /\ ~model_built
        /\ n_fit_all = 0
        /\ \A i \in Epochs : n_fit_position[i] = 0
        /\ pc \in {"check_apodizer", "load_header", "read_dataset",
                   "load_psf", "error"}
        /\ pc = "error" => error # ""

\* main() ended on an unrecognised PSF type after the cubes were loaded
C7_Witness ==
    /\ pc = "error"
    /\ conf.PARAM_PSF_TYPE = "X-PSF"
    /\ error = "RuntimeError: PARAM_PSF_TYPE"
    /\ data # <<>>
    /\ ~model_built

(***************************************************************************)
(* C8: a search that reports non-convergence does not have its last        *)
(* position accepted into model.data_xctr/data_yctr.  Stated for runs     *)
(* whose master is one of the final-reference epochs.                      *)
(***************************************************************************)
C8_NonConvergenceNotAccepted ==
    (pc = "checked" /\ ~convergence /\ MasterDesignated) =>
        /\ data_xctr[i_t] = InitialX[i_t]
        /\ data_yctr[i_t] = InitialY[i_t]

(***************************************************************************)
(* C9: at every call of fit_position for epoch i_t the weight slice of     *)
(* every other epoch equals its value before registration.  Stated for     *)
(* runs whose master is one of the final-reference epochs.                 *)
(***************************************************************************)
C9_NoMaskLeak ==
    (pc = "check_move" /\ MasterDesignated) =>
        \A j \in Epochs : j # i_t => weight[j] = weight_orig[j]

(***************************************************************************)
(* C10: whenever some is_final_ref entry is true, master_final_ref is the  *)
(* index of an epoch, and exactly one final-reference epoch is held fixed  *)
(* by the registration loop.                                               *)
(***************************************************************************)
C10_OneMaster ==
    (InRegistration /\ \E i \in Epochs : conf.PARAM_IS_FINAL_REF[i]) =>
        /\ master_final_ref \in Epochs
        /\ Cardinality({i \in Epochs :
               conf.PARAM_IS_FINAL_REF[i] /\ ~Registered(i)}) = 1

====
